---- MODULE Spec2Model ----
(***************************************************************************)
(* Model of src/ukuts/skript/main.py: a sequential pipeline that reads a   *)
(* CSV table of measuring devices, looks every device up in a remote       *)
(* registry (one GET, one retry after HTTP 429) and writes the enriched    *)
(* table row by row.                                                       *)
(*                                                                         *)
(* Python values are modelled as follows.  A str is the sequence of its    *)
(* one-character strings, so that strip, split and concatenation are the   *)
(* operations the code performs.  A character that cannot be written here  *)
(* is the token that names its code point: "<U+0000>", "<U+00E9>",         *)
(* "<U+20AC>", "<U+1F600>", and "<U+D800>" for a lone surrogate, which a    *)
(* JSON body can carry and a UTF-8 file cannot.  None, a missing key, True, *)
(* False and the list csv.DictReader stores under its rest key are tokens: *)
(* one-element sequences whose element is not a character.                 *)
(***************************************************************************)
EXTENDS Naturals, Integers, Sequences, FiniteSets, TLC

Range(s) == {s[i] : i \in 1..Len(s)}

None     == <<"<None>">>
Missing  == <<"<missing>">>
True     == <<"<True>">>
False    == <<"<False>">>
RestList == <<"<list>">>

\* bool(v) for the values above
Truthy(v) == v \notin {None, Missing, False, <<>>}

\* str(v) as used by an f-string and by the csv writer
Str(v) ==
  IF v = None THEN <<"N", "o", "n", "e">>
  ELSE IF v = True THEN <<"T", "r", "u", "e">>
  ELSE IF v = False THEN <<"F", "a", "l", "s", "e">>
  ELSE v

\* str.strip(): " " stands for every whitespace character
RECURSIVE LStrip(_)
LStrip(s) == IF s # <<>> /\ Head(s) = " " THEN LStrip(Tail(s)) ELSE s

RECURSIVE RStrip(_)
RStrip(s) == IF s # <<>> /\ s[Len(s)] = " " THEN RStrip(SubSeq(s, 1, Len(s) - 1)) ELSE s

Strip(s) == RStrip(LStrip(s))

\* str.split(sep) for a one-character separator
RECURSIVE Split(_, _)
Split(s, sep) ==
  IF \E i \in 1..Len(s) : s[i] = sep
  THEN LET i == CHOOSE k \in 1..Len(s) : s[k] = sep /\ \A j \in 1..(k - 1) : s[j] # sep
       IN  <<SubSeq(s, 1, i - 1)>> \o Split(SubSeq(s, i + 1, Len(s)), sep)
  ELSE <<s>>

\* str.replace("Z", "+00:00")
RECURSIVE ReplaceZ(_)
ReplaceZ(s) ==
  IF s = <<>> THEN <<>>
  ELSE (IF Head(s) = "Z" THEN <<"+", "0", "0", ":", "0", "0">> ELSE <<Head(s)>>)
       \o ReplaceZ(Tail(s))

(***************************************************************************)
(* Settings                                                                *)
(***************************************************************************)
api_url == "https://fgis.gost.ru/fundmetrology/eapi/vri"
TIMEOUT == 30
DELAY_BETWEEN_REQUESTS == 1
COOLDOWN == 5
TOO_MANY_REQUESTS == 429
\* requests: Response.ok is False for a status from 400 up to, not including, 600
FirstErrorStatus == 400
EndErrorStatus == 600

\* the column "номер прибора", in transliteration
DeviceCol == "nomer pribora"
\* the key csv.DictReader files surplus cells under (restkey=None)
RestKey == "<restkey>"

target_fields ==
  << "vri_id", "org_title", "mit_number", "mit_title", "mit_notation",
     "mi_modification", "mi_number", "verification_date", "valid_date",
     "result_docnum", "sticker_num", "applicability" >>

(***************************************************************************)
(* format_date.  datetime.fromisoformat is modelled as CPython 3.11        *)
(* implements it: the text is encoded as UTF-8 and read as a NUL-          *)
(* terminated byte array, a position is an offset from its start, and a    *)
(* read at or past the end gives the NUL byte, as a read of the character  *)
(* U+0000 does.                                                            *)
(***************************************************************************)
DigitSeq == <<"0", "1", "2", "3", "4", "5", "6", "7", "8", "9">>
DigitSet == Range(DigitSeq)
IsDigit(c) == c \in DigitSet
DigitVal(c) == (CHOOSE i \in 1..10 : DigitSeq[i] = c) - 1

RECURSIVE Num(_)
Num(s) == IF s = <<>> THEN 0 ELSE 10 * Num(SubSeq(s, 1, Len(s) - 1)) + DigitVal(s[Len(s)])

\* the byte 0: the character U+0000 and the end mark of the array
NUL == "<U+0000>"

Surrogates == {"<U+D800>"}
HasSurrogate(t) == \E i \in 1..Len(t) : t[i] \in Surrogates

\* the UTF-8 bytes of a character: one byte, the character itself, for ASCII
Utf8Char(c) ==
  IF c = "<U+00E9>" THEN <<"<C3>", "<A9>">>
  ELSE IF c = "<U+20AC>" THEN <<"<E2>", "<82>", "<AC>">>
  ELSE IF c = "<U+1F600>" THEN <<"<F0>", "<9F>", "<98>", "<80>">>
  ELSE <<c>>

RECURSIVE Utf8(_)
Utf8(t) == IF t = <<>> THEN <<>> ELSE Utf8Char(Head(t)) \o Utf8(Tail(t))

\* the bytes of the character that starts with byte b
CharSize(b) ==
  IF b = "<E2>" THEN 3
  ELSE IF b = "<F0>" THEN 4
  ELSE IF b \in {"<C3>", "<A9>", "<82>", "<AC>", "<9F>", "<98>", "<80>"} THEN 2
  ELSE 1

\* _sanitize_isoformat_str: a surrogate at the first of the places 7, 8, 10
\* where a separator can stand is replaced by T
SurrogatePlaces(t) == {pos \in {7, 8, 10} : pos < Len(t) /\ t[pos + 1] \in Surrogates}

Sanitize(t) ==
  IF SurrogatePlaces(t) = {} THEN t
  ELSE [t EXCEPT ![(CHOOSE pos \in SurrogatePlaces(t) : \A q \in SurrogatePlaces(t) : pos <= q) + 1] = "T"]

At(s, p) == IF p \in 0..(Len(s) - 1) THEN s[p + 1] ELSE NUL

\* parse_digits: k digits at offset p
Digits(s, p, k) == \A j \in 0..(k - 1) : IsDigit(At(s, p + j))
NumAt(s, p, k) == Num(SubSeq(s, p + 1, p + k))

IsLeap(y) == (y % 4 = 0 /\ y % 100 # 0) \/ y % 400 = 0

DaysIn(y, m) ==
  IF m = 2 THEN (IF IsLeap(y) THEN 29 ELSE 28)
  ELSE IF m \in {4, 6, 9, 11} THEN 30 ELSE 31

MINYEAR == 1
MAXYEAR == 9999

\* the proleptic Gregorian ordinal of a date, 0001-01-01 being day 1
DaysBeforeYear(y) == (y - 1) * 365 + (y - 1) \div 4 - (y - 1) \div 100 + (y - 1) \div 400

RECURSIVE DaysBeforeMonth(_, _)
DaysBeforeMonth(y, m) == IF m <= 1 THEN 0 ELSE DaysBeforeMonth(y, m - 1) + DaysIn(y, m - 1)

YmdToOrd(y, m, d) == DaysBeforeYear(y) + DaysBeforeMonth(y, m) + d

\* the year an ordinal of 1 or more falls in
YearOf(n) ==
  CHOOSE y \in ((n - 1) \div 366 + 1)..((n - 1) \div 365 + 1) :
    DaysBeforeYear(y) < n /\ n <= DaysBeforeYear(y + 1)

\* the month day n of year y falls in
MonthOf(y, n) ==
  CHOOSE m \in 1..12 : DaysBeforeMonth(y, m) < n /\ n <= DaysBeforeMonth(y, m) + DaysIn(y, m)

MonthDay(y, m, n) == <<y, m, n - DaysBeforeMonth(y, m)>>
YearDay(y, n) == MonthDay(y, MonthOf(y, n), n)

\* the date of an ordinal in 1..YmdToOrd(MAXYEAR, 12, 31)
OrdToYmd(n) == YearDay(YearOf(n), n - DaysBeforeYear(YearOf(n)))

\* Monday is 0
Weekday(y, m, d) == (YmdToOrd(y, m, d) + 6) % 7

\* the ordinal of the Monday that starts ISO week 1 of a year
IsoWeek1Monday(y) ==
  LET first_day == YmdToOrd(y, 1, 1)
      first_weekday == (first_day + 6) % 7
  IN  IF first_weekday > 3 THEN first_day - first_weekday + 7 ELSE first_day - first_weekday

\* a parse that raises ValueError
Invalid == <<>>

\* ISO year, week, day to a calendar date.  A year has a week 53 when it
\* starts on a Thursday, or is a leap year that starts on a Wednesday.  A
\* date outside MINYEAR..MAXYEAR is refused.
IsoToYmd(y, w, d) ==
  IF y < MINYEAR THEN Invalid
  ELSE IF ~(w \in 1..52 \/ (w = 53 /\ (Weekday(y, 1, 1) = 3 \/ (Weekday(y, 1, 1) = 2 /\ IsLeap(y)))))
  THEN Invalid
  ELSE IF d \notin 1..7 THEN Invalid
  ELSE LET n == IsoWeek1Monday(y) + (w - 1) * 7 + d - 1
       IN  IF n > YmdToOrd(MAXYEAR, 12, 31) THEN Invalid ELSE OrdToYmd(n)

\* _find_isoformat_datetime_separator, for a text of 7 characters or more;
\* -1 when no date form fits
RECURSIVE DigitsEnd(_, _)
DigitsEnd(s, p) == IF p < Len(s) /\ IsDigit(At(s, p)) THEN DigitsEnd(s, p + 1) ELSE p

FindSeparator(s) ==
  IF Len(s) = 7 THEN 7
  ELSE IF At(s, 4) = "-"
  THEN IF At(s, 5) = "W"
       THEN IF Len(s) > 8 /\ At(s, 8) = "-"
            THEN IF Len(s) = 9 THEN -1
                 ELSE IF Len(s) > 10 /\ IsDigit(At(s, 10)) THEN 8 ELSE 10
            ELSE 8
       ELSE 10
  ELSE IF At(s, 4) = "W"
  THEN LET idx == DigitsEnd(s, 7)
       IN  IF idx < 9 THEN idx ELSE IF idx % 2 = 0 THEN 7 ELSE 8
  ELSE 8

\* parse_isoformat_date: YYYY-MM-DD, YYYYMMDD, YYYY-Www, YYYYWww,
\* YYYY-Www-D or YYYYWwwD in the first len characters
ParseDate(s, len) ==
  IF ~Digits(s, 0, 4) THEN Invalid
  ELSE
    LET year == NumAt(s, 0, 4)
        sep == IF At(s, 4) = "-" THEN 1 ELSE 0
        p == 4 + sep
    IN  IF At(s, p) = "W"
        THEN IF ~Digits(s, p + 1, 2) THEN Invalid
             ELSE IF p + 3 < len
             THEN IF sep = 1 /\ At(s, p + 3) # "-" THEN Invalid
                  ELSE IF ~Digits(s, p + 3 + sep, 1) THEN Invalid
                  ELSE IsoToYmd(year, NumAt(s, p + 1, 2), NumAt(s, p + 3 + sep, 1))
             ELSE IsoToYmd(year, NumAt(s, p + 1, 2), 1)
        ELSE IF ~Digits(s, p, 2) THEN Invalid
        ELSE IF sep = 1 /\ At(s, p + 2) # "-" THEN Invalid
        ELSE IF ~Digits(s, p + 2 + sep, 2) THEN Invalid
        ELSE <<year, NumAt(s, p, 2), NumAt(s, p + 2 + sep, 2)>>

\* the outcome of parse_hh_mm_ss_ff: ok is FALSE for a negative return code,
\* rest says that the text goes on after the parsed part (return code 1),
\* vals are the components read, hours first
Malformed == [ok |-> FALSE, rest |-> FALSE, vals |-> <<>>]

RECURSIVE SkipDigits(_, _)
SkipDigits(s, p) == IF IsDigit(At(s, p)) THEN SkipDigits(s, p + 1) ELSE p

\* the fraction of a second: up to six digits count, further digits are
\* skipped
Fraction(s, p, end, vals) ==
  LET to_parse == IF end - p >= 6 THEN 6 ELSE end - p
  IN  IF ~Digits(s, p, to_parse) THEN Malformed
      ELSE [ok |-> TRUE, rest |-> At(s, SkipDigits(s, p + to_parse)) # NUL, vals |-> vals]

\* HH[:?MM[:?SS]] and the fraction, read from offset p up to offset end; i
\* counts the components read so far
RECURSIVE ParseHhMmSsFf(_, _, _, _, _, _)
ParseHhMmSsFf(s, p, end, i, has_separator, vals) ==
  IF i = 3 THEN Fraction(s, p, end, vals)
  ELSE IF ~Digits(s, p, 2) THEN Malformed
  ELSE
    LET c == At(s, p + 2)
        sep == IF i = 0 THEN c = ":" ELSE has_separator
        read == Append(vals, NumAt(s, p, 2))
    IN  IF p + 3 >= end THEN [ok |-> TRUE, rest |-> c # NUL, vals |-> read]
        ELSE IF sep /\ c = ":" THEN ParseHhMmSsFf(s, p + 3, end, i + 1, sep, read)
        ELSE IF c \in {".", ","} THEN Fraction(s, p + 3, end, read)
        ELSE IF ~sep THEN ParseHhMmSsFf(s, p + 2, end, i + 1, sep, read)
        ELSE Malformed

\* hours, minutes and seconds of a parse, 0 for a component it lacks
Component(vals, i) == IF i <= Len(vals) THEN vals[i] ELSE 0
Seconds(vals) == (Component(vals, 1) * 60 + Component(vals, 2)) * 60 + Component(vals, 3)

\* the offset of the first Z, + or - from offset p on, Len(s) or more when
\* there is none
RECURSIVE TzInfoPos(_, _)
TzInfoPos(s, p) ==
  IF At(s, p) \in {"Z", "+", "-"} THEN p
  ELSE IF p + 1 < Len(s) THEN TzInfoPos(s, p + 1) ELSE p + 1

\* parse_isoformat_time from offset p: the clock and the size of the UTC
\* offset in seconds.  What is left between the clock and the time zone is
\* not looked at; what is left after a clock without time zone, or after the
\* time zone, is malformed.
NoTime == [ok |-> FALSE, clock |-> <<>>, tzoffset |-> 0]

\* the clock and the time zone that follows the sign
ZoneAfter(clock, tz) ==
  IF ~tz.ok \/ tz.rest THEN NoTime
  ELSE [ok |-> TRUE, clock |-> clock.vals, tzoffset |-> Seconds(tz.vals)]

\* the clock as parsed up to offset tzinfo_pos, and what stands there
TimeAndZone(s, tzinfo_pos, clock) ==
  IF ~clock.ok THEN NoTime
  ELSE IF tzinfo_pos >= Len(s)
  THEN IF clock.rest THEN NoTime ELSE [ok |-> TRUE, clock |-> clock.vals, tzoffset |-> 0]
  ELSE IF At(s, tzinfo_pos) = "Z"
  THEN IF At(s, tzinfo_pos + 1) # NUL THEN NoTime
       ELSE [ok |-> TRUE, clock |-> clock.vals, tzoffset |-> 0]
  ELSE ZoneAfter(clock, ParseHhMmSsFf(s, tzinfo_pos + 1, Len(s), 0, TRUE, <<>>))

\* the clock is what stands before the time zone
ClockUpTo(s, p, tzinfo_pos) ==
  TimeAndZone(s, tzinfo_pos, ParseHhMmSsFf(s, p, tzinfo_pos, 0, TRUE, <<>>))

ParseTime(s, p) == ClockUpTo(s, p, TzInfoPos(s, p))

\* the range checks of the datetime and timezone constructors
ValidDate(d) ==
  /\ d[1] \in MINYEAR..MAXYEAR
  /\ d[2] \in 1..12
  /\ d[3] \in 1..DaysIn(d[1], d[2])

ValidClock(vals) == Component(vals, 1) < 24 /\ Component(vals, 2) < 60 /\ Component(vals, 3) < 60

\* an offset is less than a day; its components are not checked one by one
ValidOffset(seconds) == seconds < 24 * 3600

\* a date without a time part
Midnight == [ok |-> TRUE, clock |-> <<>>, tzoffset |-> 0]

\* the datetime and timezone constructors: the date of the result, Invalid
\* when a part did not parse or is out of range
NewDatetime(d, t) ==
  IF d = Invalid THEN Invalid
  ELSE IF ~t.ok THEN Invalid
  ELSE IF ValidDate(d) /\ ValidClock(t.clock) /\ ValidOffset(t.tzoffset) THEN d
  ELSE Invalid

\* the date up to the separator, the time after the character that stands
\* there
SplitAt(s, separator_location) ==
  IF separator_location < 0 THEN Invalid
  ELSE NewDatetime(ParseDate(s, separator_location),
                   IF Len(s) > separator_location
                   THEN ParseTime(s, separator_location + CharSize(At(s, separator_location)))
                   ELSE Midnight)

\* the parse of the UTF-8 bytes s
ParseBytes(s) == SplitAt(s, FindSeparator(s))

\* a text with a surrogate left has no UTF-8 encoding
Encode(t) == IF HasSurrogate(t) THEN Invalid ELSE ParseBytes(Utf8(t))

\* datetime.fromisoformat(t): the calendar date <<year, month, day>> of the
\* result, Invalid for ValueError
fromisoformat(t) == IF Len(t) < 7 THEN Invalid ELSE Encode(Sanitize(t))

\* datetime.fromisoformat(s) does not raise ValueError
ParsesAsIso(s) == fromisoformat(s) # Invalid

\* the decimal digits of a natural number, as "%d" prints them
RECURSIVE Dec(_)
Dec(n) == IF n < 10 THEN <<DigitSeq[n + 1]>> ELSE Dec(n \div 10) \o <<DigitSeq[(n % 10) + 1]>>

\* "%02d"
Dec2(n) == IF n < 10 THEN <<"0">> \o Dec(n) ELSE Dec(n)

\* strftime("%d.%m.%Y"): glibc prints the year without leading zeros
strftime(d) == Dec2(d[3]) \o <<".">> \o Dec2(d[2]) \o <<".">> \o Dec(d[1])

\* lines 47-51: the formatted date, the text itself after ValueError
TryFormat(d, iso_date) == IF d = Invalid THEN iso_date ELSE strftime(d)

format_date(iso_date) ==
  IF ~Truthy(iso_date) THEN <<>>
  ELSE TryFormat(fromisoformat(ReplaceZ(iso_date)), iso_date)

(***************************************************************************)
(* Dictionaries: a function from keys to values, Missing for an absent key *)
(***************************************************************************)
\* dict.get(key, default)
Get(d, key, default) == IF d[key] = Missing THEN default ELSE d[key]

OtherCols == {DeviceCol, "arshin"}
RowKeys == Range(target_fields) \cup OtherCols \cup {RestKey}

\* the last position of a column name in the header
LastIndex(header, key) ==
  CHOOSE i \in 1..Len(header) : header[i] = key /\ \A j \in (i + 1)..Len(header) : header[j] # key

\* csv.DictReader: one line of cells becomes a dictionary; a short line gets
\* None for the columns it lacks, a long line gets its surplus under RestKey
DictRead(header, cells) ==
  [key \in RowKeys |->
     IF key = RestKey
     THEN (IF Len(cells) > Len(header) THEN RestList ELSE Missing)
     ELSE IF key \notin Range(header) THEN Missing
     ELSE IF LastIndex(header, key) <= Len(cells) THEN cells[LastIndex(header, key)]
     ELSE None]

\* a variant that appends every enrichment column, present or not
AppendMissing_All(names, fields) == names \o fields

\* the loop that appends the enrichment columns the header lacks
RECURSIVE AppendMissing(_, _)
AppendMissing(names, fields) ==
  IF fields = <<>> THEN names
  ELSE AppendMissing(IF Head(fields) \in Range(names) THEN names ELSE Append(names, Head(fields)),
                     Tail(fields))

\* csv.DictWriter(extrasaction="raise"): the keys that make writerow raise
WrongFields(rowdict, names) ==
  {key \in DOMAIN rowdict : rowdict[key] # Missing /\ key \notin Range(names)}

\* the cell the csv writer emits for a value: None becomes the empty cell
CsvCell(v) == IF v = None THEN <<>> ELSE Str(v)

\* DictWriter._dict_to_list: one cell per column, "" for a missing key
DictToList(rowdict, names) ==
  [i \in 1..Len(names) |-> CsvCell(Get(rowdict, names[i], <<>>))]

(***************************************************************************)
(* The registry: responses, bodies, items                                  *)
(***************************************************************************)
RecordFields ==
  {"vri_id", "org_title", "mit_number", "mit_title", "mit_notation", "mi_modification",
   "mi_number", "verification_date", "valid_date", "result_docnum", "sticker_num",
   "applicability"}

NoFields == [k \in RecordFields |-> Missing]

\* Python None as the lookup result; also a JSON null item
NoneItem == [kind |-> "null", d |-> NoFields]

\* bool(item): a str item here is non-empty, a dict is true iff it has a key
TruthyItem(it) ==
  \/ it.kind = "str"
  \/ it.kind = "dict" /\ \E k \in RecordFields : it.d[k] # Missing

\* Response.ok
Ok(resp) == ~(FirstErrorStatus <= resp.status /\ resp.status < EndErrorStatus)

\* lines 95-106 of get_latest_vri: the record the lookup returns for the
\* response it ends with
LookupResult(resp) ==
  IF resp.error THEN NoneItem                                     \* except Exception
  ELSE IF ~Ok(resp) THEN NoneItem                                 \* if not r.ok
  ELSE IF resp.body.json \in {"invalid", "null_result"} THEN NoneItem     \* raises, caught
  ELSE IF resp.body.json \in {"no_result", "null_items"} THEN NoneItem    \* items falsy
  ELSE IF resp.body.items = <<>> THEN NoneItem
  ELSE resp.body.items[1]

(***************************************************************************)
(* Inputs: the input file and what the registry may answer                 *)
(***************************************************************************)
MaxRows == 2

Headers ==
  { <<DeviceCol, "vri_id", "arshin">>,
    <<"sticker_num", DeviceCol>>,
    <<"vri_id", "vri_id">> }

\* lines of cells as the csv reader splits them; what a cell means depends
\* on the header it is read under
FileRows ==
  { << <<" ", "7", " ">> >>,
    << <<" ", "7", " ">>, <<>> >>,
    << <<" ", "7", " ">>, <<" ">>, <<"R">> >>,
    << <<" ", "7", " ">>, <<"V">> >>,
    << <<" ">>, <<>>, <<"R">> >>,
    << <<>>, <<>>, <<"R">> >>,
    << <<" ", "7", " ">>, <<>>, <<"R">>, <<"x">> >> }

RECURSIVE SeqsUpTo(_, _)
SeqsUpTo(S, n) ==
  IF n = 0 THEN {<<>>}
  ELSE LET shorter == SeqsUpTo(S, n - 1)
       IN  shorter \cup {Append(q, x) : q \in {t \in shorter : Len(t) = n - 1}, x \in S}

Files ==
  [exists : {TRUE}, header : Headers, rows : SeqsUpTo(FileRows, MaxRows)]
  \cup [exists : {FALSE}, header : {<<>>}, rows : {<<>>}]

Dict(d) == [kind |-> "dict", d |-> d]

FullItem ==
  Dict([NoFields EXCEPT
    !["vri_id"] = <<"V", "9">>,
    !["org_title"] = <<"O">>,
    !["mit_number"] = <<"1", "-", "2">>,
    !["mit_title"] = <<"T">>,
    !["mit_notation"] = <<"N">>,
    !["mi_modification"] = <<"M">>,
    !["mi_number"] = <<"7">>,
    !["verification_date"] = <<"2", "0", "2", "4", "-", "0", "2", "-", "2", "9", "T",
                               "1", "0", ":", "3", "0", ":", "0", "0", "Z">>,
    !["valid_date"] = <<"2", "0", "2", "5", "-", "0", "2", "-", "2", "8">>,
    !["result_docnum"] = <<"A", "/", "B", "/", "1", "2", "3", "4", "/", "5">>,
    !["sticker_num"] = <<"S">>,
    !["applicability"] = True])

Items ==
  { FullItem,
    \* empty identifier, four-segment document number
    Dict([NoFields EXCEPT
      !["vri_id"] = <<>>,
      !["result_docnum"] = <<"A", "/", "B", "/", "1", "2", "3", "4", "/", "5">>,
      !["applicability"] = False]),
    \* no identifier, three segments, an impossible date, null fields
    Dict([NoFields EXCEPT
      !["result_docnum"] = <<"A", "/", "B", "/", "1", "2">>,
      !["verification_date"] = <<"2", "0", "2", "3", "-", "0", "2", "-", "2", "9">>,
      !["valid_date"] = None,
      !["org_title"] = None,
      !["mi_number"] = None]),
    \* null identifier, two segments, a date that ends at U+0000 and one
    \* with a two-byte character before the offset
    Dict([NoFields EXCEPT
      !["vri_id"] = None,
      !["verification_date"] = <<"2", "0", "2", "4", "-", "0", "2", "-", "2", "9", "T",
                                 "1", "0", ":", "3", "0", "<U+0000>">>,
      !["valid_date"] = <<"2", "0", "2", "5", "-", "0", "2", "-", "2", "8", "T",
                          "0", "3", "<U+00E9>", "Z">>,
      !["result_docnum"] = <<"A", "/", "B">>]),
    \* a surrogate where the date's separator stands, and in a field that is
    \* only written
    Dict([NoFields EXCEPT
      !["vri_id"] = <<"V">>,
      !["verification_date"] = <<"2", "0", "2", "4", "-", "0", "2", "-", "2", "9",
                                 "<U+D800>", "1", "0">>,
      !["sticker_num"] = <<"<U+D800>">>]),
    \* a surrogate in the identifier
    Dict([NoFields EXCEPT !["vri_id"] = <<"<U+D800>">>]),
    \* empty identifier, null document number
    Dict([NoFields EXCEPT
      !["vri_id"] = <<>>,
      !["result_docnum"] = None]),
    \* a date that is not a string, after a week date
    Dict([NoFields EXCEPT
      !["org_title"] = <<"O">>,
      !["verification_date"] = <<"2", "0", "2", "4", "-", "W", "0", "1", "-", "1">>,
      !["valid_date"] = True]),
    \* {}
    Dict(NoFields),
    \* null
    NoneItem,
    \* a JSON string
    [kind |-> "str", d |-> NoFields] }

\* a list of two items: the first is a record, or the first is {} and a
\* record follows
TwoItems == {<<FullItem, Dict(NoFields)>>, <<Dict(NoFields), FullItem>>}

Bodies ==
  [json : {"invalid", "no_result", "null_result", "null_items"},
   items : {<<>>}]
  \cup [json : {"items"}, items : {<<>>} \cup {<<it>> : it \in Items} \cup TwoItems]

\* the body of a response that is not read: the status is 429 or fails
\* Response.ok
Unread == [json |-> "invalid", items |-> <<>>]

\* a response with another status than 200 that passes Response.ok carries
\* one of two bodies
ErrorBodies == {Unread, [json |-> "items", items |-> <<FullItem>>]}

\* FOUND is the status of an answer that requests does not follow: it has
\* no Location header
FOUND == 302
Statuses == {200, FOUND, TOO_MANY_REQUESTS, 500, EndErrorStatus}

\* requests raised (connection error, timeout): no response
TransportError == [error |-> TRUE, status |-> 0, body |-> Unread]

Responses ==
  {[error |-> FALSE, status |-> st, body |-> b] :
      st \in {200}, b \in Bodies}
  \cup {[error |-> FALSE, status |-> st, body |-> b] :
      st \in {x \in Statuses \ {200} : Ok([status |-> x])}, b \in ErrorBodies}
  \cup {[error |-> FALSE, status |-> st, body |-> Unread] :
      st \in {x \in Statuses : x = TOO_MANY_REQUESTS \/ ~Ok([status |-> x])}}
  \cup {TransportError}

\* requests follows a redirect: an answer with a Location header and status
\* 301, 302, 303, 307 or 308.  It sends the request again, to the location,
\* at once, and gives up with TooManyRedirects when an answer after
\* DEFAULT_REDIRECT_LIMIT followed ones is a redirect again.
DEFAULT_REDIRECT_LIMIT == 30
MaxFollowed == 1
Location == "https://fgis.gost.ru/moved"

\* what ends a chain of followed redirects here: a record, or a failure of
\* the request to the location
RedirectedResponses ==
  {[error |-> FALSE, status |-> 200, body |-> [json |-> "items", items |-> <<FullItem>>]],
   TransportError}

\* what one call of session.get meets: the number of redirects followed and
\* the response the call returns, or the exception it raises
Answers ==
  {[followed |-> 0, resp |-> resp] : resp \in Responses}
  \cup {[followed |-> k, resp |-> resp] : k \in 1..MaxFollowed, resp \in RedirectedResponses}
  \cup {[followed |-> DEFAULT_REDIRECT_LIMIT, resp |-> TransportError]}

\* datetime.now().strftime("%Y-%m-%d")
Today == <<"2", "0", "2", "6", "-", "1", "0", "-", "3", "0">>
DateFloor == <<"2", "0", "0", "0", "-", "0", "1", "-", "0", "1">>

(***************************************************************************)
(* State                                                                   *)
(***************************************************************************)
VARIABLES
  pc,           \* where main() is: "start", "open", "loop", "get1", "cooldown",
                \* "get2", "returned", "throttle", "done", "stopped", "crashed"
  file,         \* the input file on disk; never written
  input_rows,   \* list(reader): the row dictionaries, mutated in place
  fieldnames,   \* reader.fieldnames, extended by the enrichment columns
  stats,        \* the statistics dictionary
  idx,          \* the loop index: the number of the row last taken from input_rows
  mi_number,    \* the stripped device number of the current row
  params,       \* get_latest_vri: the query parameters
  full_url,     \* get_latest_vri: the query URL for display
  r,            \* get_latest_vri: the response in hand
  vri,          \* main: the record get_latest_vri returned
  request_url,  \* main: the URL get_latest_vri returned
  f_out,        \* the output file: header and rows written, lines flushed
  console,      \* the lines printed for the row last processed
  reqs,         \* the requests put on the wire during the current lookup
  idle          \* time slept since the last request was issued

vars == <<pc, file, input_rows, fieldnames, stats, idx, mi_number, params, full_url,
          r, vri, request_url, f_out, console, reqs, idle>>

NoParams == [mi_number |-> <<>>, sort |-> "", rows |-> 0, start |-> 0,
             verification_date_start |-> <<>>, verification_date_end |-> <<>>]
NoUrl == [url |-> "", query |-> NoParams]
NoResponse == [error |-> FALSE, status |-> 0, body |-> [json |-> "invalid", items |-> <<>>]]
NoStats == [total |-> 0, already_filled |-> 0, found |-> 0, not_found |-> 0, skipped |-> 0]

Init ==
  /\ pc = "start"
  /\ file \in Files
  /\ input_rows = <<>>
  /\ fieldnames = <<>>
  /\ stats = NoStats
  /\ idx = 0
  /\ mi_number = <<>>
  /\ params = NoParams
  /\ full_url = NoUrl
  /\ r = NoResponse
  /\ vri = NoneItem
  /\ request_url = NoUrl
  /\ f_out = [open |-> FALSE, header |-> <<>>, rows |-> <<>>, written |-> 0, flushed |-> 0]
  /\ console = <<>>
  /\ reqs = <<>>
  /\ idle = 0

lookupVars == <<mi_number, params, full_url, r, vri, request_url, reqs>>

(***************************************************************************)
(* The output file                                                         *)
(***************************************************************************)
\* writer.writeheader()
WriteHeader(f, names) == [f EXCEPT !.header = names, !.written = @ + 1]

\* writer.writerow(row), when it does not raise
WriteRow(f, rowdict, names) ==
  [f EXCEPT !.rows = Append(@, DictToList(rowdict, names)), !.written = @ + 1]

\* f_out.flush()
Flush(f) == [f EXCEPT !.flushed = f.written]

\* leaving the with block, normally or by an exception: close() flushes
Close(f) == [Flush(f) EXCEPT !.open = FALSE]

\* the stream encodes what is written as UTF-8: a text with a surrogate
\* raises UnicodeEncodeError
Unencodable(cells) == \E i \in 1..Len(cells) : HasSurrogate(cells[i])

\* writer.writerow(row) raises: ValueError for a key that is no column,
\* UnicodeEncodeError for a cell the file cannot hold
WriteRaises(rowdict, names) ==
  WrongFields(rowdict, names) # {} \/ Unencodable(DictToList(rowdict, names))

\* a variant that leaves the row in the buffer
WriteAndFlush_NoFlush(rowdict, next) ==
  IF WriteRaises(rowdict, fieldnames)
  THEN /\ pc' = "crashed"
       /\ f_out' = Close(f_out)
  ELSE /\ pc' = next
       /\ f_out' = WriteRow(f_out, rowdict, fieldnames)

\* writer.writerow(row); f_out.flush() -- or the exception writerow raises,
\* which leaves main() through the with block
WriteAndFlush(rowdict, next) ==
  IF WriteRaises(rowdict, fieldnames)
  THEN /\ pc' = "crashed"
       /\ f_out' = Close(f_out)
  ELSE /\ pc' = next
       /\ f_out' = Flush(WriteRow(f_out, rowdict, fieldnames))

(***************************************************************************)
(* main(): reading the input, opening the output                           *)
(***************************************************************************)
Line(kind) == [kind |-> kind, url |-> NoUrl]
UrlLine(u) == [kind |-> "url", url |-> u]

\* open(INPUT_CSV) raises FileNotFoundError: message, return
MissingFile ==
  /\ pc = "start"
  /\ ~file.exists
  /\ console' = <<Line("missing_file")>>
  /\ pc' = "stopped"
  /\ UNCHANGED <<file, input_rows, fieldnames, stats, idx, lookupVars, f_out, idle>>

\* the table has no rows: message, return
EmptyInput ==
  /\ pc = "start"
  /\ file.exists
  /\ file.rows = <<>>
  /\ input_rows' = <<>>
  /\ fieldnames' = file.header
  /\ console' = <<Line("empty_input")>>
  /\ pc' = "stopped"
  /\ UNCHANGED <<file, stats, idx, lookupVars, f_out, idle>>

\* the table is read whole, the column order and the statistics are set up
ReadInput ==
  /\ pc = "start"
  /\ file.exists
  /\ file.rows # <<>>
  /\ input_rows' = [i \in 1..Len(file.rows) |-> DictRead(file.header, file.rows[i])]
  /\ fieldnames' = AppendMissing(file.header, target_fields)
  /\ stats' = [NoStats EXCEPT !.total = Len(file.rows)]
  /\ console' = <<Line("begin")>>
  /\ pc' = "open"
  /\ UNCHANGED <<file, idx, lookupVars, f_out, idle>>

\* the output is opened, the header written and flushed
OpenOutput ==
  /\ pc = "open"
  /\ f_out' = Flush(WriteHeader([open |-> TRUE, header |-> <<>>, rows |-> <<>>,
                                 written |-> 0, flushed |-> 0], fieldnames))
  /\ pc' = "loop"
  /\ UNCHANGED <<file, input_rows, fieldnames, stats, idx, lookupVars, console, idle>>

(***************************************************************************)
(* main(): one row                                                         *)
(***************************************************************************)
\* row.get("номер прибора", "") and row.get("vri_id", "") before .strip()
RawDevice(row) == Get(row, DeviceCol, <<>>)
RawVri(row) == Get(row, "vri_id", <<>>)

\* .strip() on None raises AttributeError
StripRaises(row) == RawDevice(row) = None \/ RawVri(row) = None

MiNumber(row) == Strip(RawDevice(row))
ExistingVri(row) == Strip(RawVri(row))

AtRow == pc = "loop" /\ idx < Len(input_rows)
NextRow == input_rows[idx + 1]

\* lines 158-159 raise: the exception leaves main()
RowRaises ==
  /\ AtRow
  /\ StripRaises(NextRow)
  /\ idx' = idx + 1
  /\ pc' = "crashed"
  /\ f_out' = Close(f_out)
  /\ UNCHANGED <<file, input_rows, fieldnames, stats, lookupVars, console, idle>>

\* a variant that forgets to count the row
AlreadyFilled_Uncounted ==
  /\ AtRow
  /\ ~StripRaises(NextRow)
  /\ ExistingVri(NextRow) # <<>>
  /\ idx' = idx + 1
  /\ console' = <<Line("already_filled")>>
  /\ WriteAndFlush(NextRow, "loop")
  /\ UNCHANGED <<file, input_rows, fieldnames, stats, lookupVars, idle>>

\* scenario 1: the row already has a vri_id
AlreadyFilled ==
  /\ AtRow
  /\ ~StripRaises(NextRow)
  /\ ExistingVri(NextRow) # <<>>
  /\ idx' = idx + 1
  /\ stats' = [stats EXCEPT !.already_filled = @ + 1]
  /\ console' = <<Line("already_filled")>>
  /\ WriteAndFlush(NextRow, "loop")
  /\ UNCHANGED <<file, input_rows, fieldnames, lookupVars, idle>>

\* the row has no device number
Skipped ==
  /\ AtRow
  /\ ~StripRaises(NextRow)
  /\ ExistingVri(NextRow) = <<>>
  /\ MiNumber(NextRow) = <<>>
  /\ idx' = idx + 1
  /\ stats' = [stats EXCEPT !.skipped = @ + 1]
  /\ console' = <<Line("skipped")>>
  /\ WriteAndFlush(NextRow, "loop")
  /\ UNCHANGED <<file, input_rows, fieldnames, lookupVars, idle>>

(***************************************************************************)
(* get_latest_vri()                                                        *)
(***************************************************************************)
\* the headers of requests.Session(), three of them set anew by create_session
SessionHeaders == {"User-Agent", "Accept-Encoding", "Accept", "Connection"}

Params(number) ==
  [mi_number |-> Strip(number), sort |-> "verification_date desc", rows |-> 1, start |-> 0,
   verification_date_start |-> DateFloor, verification_date_end |-> Today]

FullUrl(p) == [url |-> api_url, query |-> p]

\* the request a call of session.get sends first: what goes on the wire, how
\* long after the previous request, and which call of the lookup sent it
Request(call, p, headers) ==
  [url |-> api_url, params |-> p,
   headers |-> SessionHeaders \cup headers, timeout |-> TIMEOUT, idle |-> idle, call |-> call]

\* the request sent to the location of a redirect: the query is part of the
\* location, the headers and the timeout are those of the call
Redirected(call, headers) ==
  [url |-> Location, params |-> NoParams,
   headers |-> SessionHeaders \cup headers, timeout |-> TIMEOUT, idle |-> 0, call |-> call]

\* the requests of one call of session.get that follows so many redirects
Wire(call, p, headers, followed) ==
  [hop \in 1..(followed + 1) |->
     IF hop = 1 THEN Request(call, p, headers) ELSE Redirected(call, headers)]

\* the call of get_latest_vri: parameters and URL are built
BeginLookup ==
  /\ AtRow
  /\ ~StripRaises(NextRow)
  /\ ExistingVri(NextRow) = <<>>
  /\ MiNumber(NextRow) # <<>>
  /\ idx' = idx + 1
  /\ mi_number' = MiNumber(NextRow)
  /\ params' = Params(MiNumber(NextRow))
  /\ full_url' = FullUrl(Params(MiNumber(NextRow)))
  /\ reqs' = <<>>
  /\ pc' = "get1"
  /\ UNCHANGED <<file, input_rows, fieldnames, stats, r, vri, request_url, f_out, console, idle>>

FirstHeaders == {"X-Requested-With"}
RetryHeaders == {}

\* the first session.get and what follows unless the status is 429
Get1 ==
  /\ pc = "get1"
  /\ \E a \in Answers :
       /\ reqs' = reqs \o Wire(1, params, FirstHeaders, a.followed)
       /\ idle' = 0
       /\ r' = a.resp
       /\ IF ~a.resp.error /\ a.resp.status = TOO_MANY_REQUESTS
          THEN /\ pc' = "cooldown"
               /\ UNCHANGED <<vri, request_url>>
          ELSE /\ pc' = "returned"
               /\ vri' = LookupResult(a.resp)
               /\ request_url' = full_url
  /\ UNCHANGED <<file, input_rows, fieldnames, stats, idx, mi_number, params, full_url,
                 f_out, console>>

\* time.sleep(5)
Cooldown ==
  /\ pc = "cooldown"
  /\ idle' = idle + COOLDOWN
  /\ pc' = "get2"
  /\ UNCHANGED <<file, input_rows, fieldnames, stats, idx, lookupVars, f_out, console>>

\* the second session.get; whatever it brings is evaluated
Get2 ==
  /\ pc = "get2"
  /\ \E a \in Answers :
       /\ reqs' = reqs \o Wire(2, params, RetryHeaders, a.followed)
       /\ idle' = 0
       /\ r' = a.resp
       /\ pc' = "returned"
       /\ vri' = LookupResult(a.resp)
       /\ request_url' = full_url
  /\ UNCHANGED <<file, input_rows, fieldnames, stats, idx, mi_number, params, full_url,
                 f_out, console>>

(***************************************************************************)
(* main(): the row after the lookup                                        *)
(***************************************************************************)
IsStr(v) == v \notin {None, Missing, True, False, RestList}

CurRow == input_rows[idx]

lookupDone ==
  /\ mi_number' = <<>>
  /\ params' = NoParams
  /\ full_url' = NoUrl
  /\ r' = NoResponse
  /\ vri' = NoneItem
  /\ request_url' = NoUrl
  /\ reqs' = <<>>

\* scenario 2: no record
NotFound ==
  /\ pc = "returned"
  /\ ~TruthyItem(vri)
  /\ stats' = [stats EXCEPT !.not_found = @ + 1]
  /\ console' = <<Line("not_found"), UrlLine(request_url)>>
  /\ WriteAndFlush(CurRow, "throttle")
  /\ lookupDone
  /\ UNCHANGED <<file, input_rows, fieldnames, idx, idle>>

\* lines 195-200: the descriptive fields of the record are copied into the row
FillTitles(row, rec, number) ==
  [row EXCEPT
    !["org_title"] = Get(rec, "org_title", <<>>),
    !["mit_number"] = Get(rec, "mit_number", <<>>),
    !["mit_title"] = Get(rec, "mit_title", <<>>),
    !["mit_notation"] = Get(rec, "mit_notation", <<>>),
    !["mi_modification"] = Get(rec, "mi_modification", <<>>),
    !["mi_number"] = Get(rec, "mi_number", number)]

\* line 202
FillVerificationDate(row, rec) ==
  [row EXCEPT !["verification_date"] = format_date(Get(rec, "verification_date", <<>>))]

\* line 203
FillValidDate(row, rec) ==
  [row EXCEPT !["valid_date"] = format_date(Get(rec, "valid_date", <<>>))]

\* lines 204-207
FillResult(row, rec) ==
  [row EXCEPT
    !["result_docnum"] = Get(rec, "result_docnum", <<>>),
    !["sticker_num"] = Get(rec, "sticker_num", <<>>),
    !["applicability"] = IF Truthy(Get(rec, "applicability", None))
                         THEN <<"t", "r", "u", "e">> ELSE <<"f", "a", "l", "s", "e">>,
    !["vri_id"] = Get(rec, "vri_id", <<>>)]

\* lines 195-207, when no assignment raises
Fill(row, rec, number) ==
  FillResult(FillValidDate(FillVerificationDate(FillTitles(row, rec, number), rec), rec), rec)

\* format_date on a true value that is not a str raises AttributeError
DateRaises(v) == Truthy(v) /\ ~IsStr(v)

\* line 210: "/" in row["result_docnum"] raises TypeError unless it is a str
DocnumRaises(row) == ~Truthy(row["vri_id"]) /\ ~IsStr(row["result_docnum"])

\* lines 210-213: the fallback identifier
Fallback(row) ==
  IF ~Truthy(row["vri_id"]) /\ "/" \in Range(row["result_docnum"])
  THEN LET parts == Split(row["result_docnum"], "/")
       IN  IF Len(parts) >= 3
           THEN [row EXCEPT !["vri_id"] = Str(Get(row, "arshin", <<>>)) \o <<"-">> \o parts[3]]
           ELSE row
  ELSE row

\* the found branch raised: the counter is already incremented, the row is
\* changed as far as the assignments got, nothing is written
FoundRaises(changed) ==
  /\ input_rows' = [input_rows EXCEPT ![idx] = changed]
  /\ pc' = "crashed"
  /\ f_out' = Close(f_out)
  /\ UNCHANGED console

\* lines 215-218: the row is reported and written
Enriched(row) ==
  /\ input_rows' = [input_rows EXCEPT ![idx] = row]
  /\ console' = <<Line("found")>>
  /\ WriteAndFlush(row, "throttle")

\* line 215: print, to a console that encodes as UTF-8, raises
\* UnicodeEncodeError for a surrogate in the date or the identifier it shows
PrintRaises(row) ==
  HasSurrogate(Str(row["verification_date"])) \/ HasSurrogate(Str(row["vri_id"]))

\* lines 215-218 for the row with its identifier settled
Reported(row) == IF PrintRaises(row) THEN FoundRaises(row) ELSE Enriched(row)

\* lines 210-218 for the row with the record's fields copied in
Filled(row) ==
  IF DocnumRaises(row) THEN FoundRaises(row) ELSE Reported(Fallback(row))

\* scenario 3: a record
Found ==
  /\ pc = "returned"
  /\ TruthyItem(vri)
  /\ stats' = [stats EXCEPT !.found = @ + 1]
  /\ IF vri.kind # "dict"
     THEN FoundRaises(CurRow)                                      \* vri.get at line 195
     ELSE IF DateRaises(vri.d["verification_date"])
     THEN FoundRaises(FillTitles(CurRow, vri.d, mi_number))        \* line 202
     ELSE IF DateRaises(vri.d["valid_date"])
     THEN FoundRaises(FillVerificationDate(FillTitles(CurRow, vri.d, mi_number), vri.d))
     ELSE Filled(Fill(CurRow, vri.d, mi_number))
  /\ lookupDone
  /\ UNCHANGED <<file, fieldnames, idx, idle>>

\* a variant that goes on to the next row without the sleep
Throttle_NoSleep ==
  /\ pc = "throttle"
  /\ pc' = "loop"
  /\ UNCHANGED <<file, input_rows, fieldnames, stats, idx, lookupVars, f_out, console, idle>>

\* time.sleep(DELAY_BETWEEN_REQUESTS)
Throttle ==
  /\ pc = "throttle"
  /\ idle' = idle + DELAY_BETWEEN_REQUESTS
  /\ pc' = "loop"
  /\ UNCHANGED <<file, input_rows, fieldnames, stats, idx, lookupVars, f_out, console>>

\* the loop is over: the output is closed, the summary printed
Finish ==
  /\ pc = "loop"
  /\ idx = Len(input_rows)
  /\ f_out' = Close(f_out)
  /\ console' = <<Line("summary")>>
  /\ pc' = "done"
  /\ UNCHANGED <<file, input_rows, fieldnames, stats, idx, lookupVars, idle>>

Next ==
  \/ MissingFile
  \/ EmptyInput
  \/ ReadInput
  \/ OpenOutput
  \/ RowRaises
  \/ AlreadyFilled
  \/ Skipped
  \/ BeginLookup
  \/ Get1
  \/ Cooldown
  \/ Get2
  \/ NotFound
  \/ Found
  \/ Throttle
  \/ Finish

Spec == Init /\ [][Next]_vars

(***************************************************************************)
(* Properties                                                              *)
(***************************************************************************)
\* the row of the input file that became input_rows[i], as read
Original(i) == DictRead(file.header, file.rows[i])

\* the response is a success, as the code tests it with Response.ok, that
\* carries at least one item
SucceededWithItem(resp) ==
  ~resp.error /\ Ok(resp) /\ resp.body.json = "items" /\ resp.body.items # <<>>

InLookup == pc \in {"get1", "cooldown", "get2", "returned"}

Sum == stats.already_filled + stats.found + stats.not_found + stats.skipped

\* ---- C1 ----------------------------------------------------------------
\* a success status
Success(resp) == ~resp.error /\ resp.status \in 200..299

\* what C1 says of the requests of one lookup, apart from how the row ends:
\* at most two requests; a retry is pending only on a 429; the second
\* request is issued 5 units after the first; the response to the second is
\* final: its first item if it is a success with at least one item, no
\* record if it is a transport failure or any status that is not a success,
\* 429 included
C1_Requests ==
  /\ Len(reqs) <= 2
  /\ pc \in {"cooldown", "get2"} => Len(reqs) = 1 /\ ~r.error /\ r.status = TOO_MANY_REQUESTS
  /\ pc = "get2" => idle = COOLDOWN
  /\ Len(reqs) = 2 => pc = "returned" /\ reqs[2].idle = COOLDOWN
  /\ pc = "returned" /\ Len(reqs) = 2 /\ Success(r) /\ r.body.json = "items"
       /\ r.body.items # <<>> => vri = r.body.items[1]
  /\ pc = "returned" /\ Len(reqs) = 2 /\ ~Success(r) => vri = NoneItem

\* a second request is issued only from a 429, and none after the second
C1_RetryStep ==
  /\ Len(reqs') >= 2 /\ Len(reqs) < 2 => Len(reqs) = 1 /\ ~r.error /\ r.status = TOO_MANY_REQUESTS
  /\ Len(reqs) = 2 => Len(reqs') \in {0, 2}

\* the row whose retry brought an item leaves the lookup
RetryBroughtItem ==
  /\ pc = "returned" /\ pc' # "returned"
  /\ \E i \in 1..Len(reqs) : reqs[i].call = 2
  /\ Success(r) /\ r.body.json = "items" /\ r.body.items # <<>>

\* C1: at most two requests per lookup, the second only after a 429 and a
\* 5-unit pause, its outcome final, and a retry that succeeds with at least
\* one item makes the row end as found
C1_RetryOnce ==
  /\ []C1_Requests
  /\ [][C1_RetryStep]_vars
  /\ [][RetryBroughtItem => stats'.found = stats.found + 1]_vars

\* ---- C2 ----------------------------------------------------------------
\* C2: once the table has at least one row, no failure raised while a row
\* is processed leaves main(): the run never ends by an exception
C2_NoExceptionEscapes == pc # "crashed"

\* ---- C3 ----------------------------------------------------------------
\* one of the four outcome counters grows by one, the rest of stats stays
OneCounterStep ==
  \E c \in {"already_filled", "found", "not_found", "skipped"} :
    stats' = [stats EXCEPT ![c] = @ + 1]

\* C3: total is the number of input rows from the moment it is set and never
\* changes; every change of the statistics after that is one outcome counter
\* growing by one; when k rows have been processed the four outcome counters
\* sum to k, and to total when the run has finished
C3_Counters ==
  /\ [](pc \notin {"start", "stopped"} => stats.total = Len(file.rows))
  /\ [](pc \in {"loop", "throttle", "done"} => Sum = idx)
  /\ [](InLookup => Sum = idx - 1)
  /\ [](pc = "done" => Sum = stats.total)
  /\ [][stats' # stats => IF pc = "start" THEN stats' = [NoStats EXCEPT !.total = Len(file.rows)]
                          ELSE OneCounterStep]_vars
  /\ [][idx' # idx /\ pc' = "loop" => OneCounterStep]_vars
  /\ [][pc = "returned" /\ pc' = "throttle" => OneCounterStep]_vars

\* a finished run of two rows with two different outcomes
C3_Witness ==
  pc = "done" /\ stats.total = 2 /\ stats.found = 1 /\ stats.skipped = 1

\* ---- C4 ----------------------------------------------------------------
\* the row leaves the loop body at once: counter c grows by one and nothing
\* else in stats changes, the row is written as it was read, no request
PassedThrough(c) ==
  /\ stats' = [stats EXCEPT ![c] = @ + 1]
  /\ f_out'.rows = Append(f_out.rows, DictToList(Original(idx + 1), fieldnames))
  /\ input_rows' = input_rows
  /\ reqs' = reqs
  /\ pc' = "loop"

IsBlank(v) == v \in {<<>>, None} \/ (IsStr(v) /\ Strip(v) = <<>>)

\* C4: a row whose vri_id field is non-empty is passed through as already
\* filled; otherwise a row whose device field is empty or whitespace-only is
\* passed through as skipped
C4_PassThrough ==
  [][AtRow /\ idx' = idx + 1 =>
       LET vriField == Get(NextRow, "vri_id", <<>>)
           devField == Get(NextRow, DeviceCol, <<>>)
           filled   == vriField \notin {<<>>, None}
       IN  /\ filled => PassedThrough("already_filled")
           /\ ~filled /\ IsBlank(devField) => PassedThrough("skipped")]_vars

\* ---- C5 ----------------------------------------------------------------
\* C5: the lookup returns the query URL whatever the outcome; a row whose
\* lookup ends with a response that is not a success with at least one item
\* is counted as not found and nothing else, is written as it was read, and
\* its query URL is printed
C5_NotFound ==
  /\ [](pc = "returned" => request_url = FullUrl(Params(RawDevice(Original(idx)))))
  /\ [][pc = "returned" /\ ~SucceededWithItem(r) /\ pc' # "returned" =>
          /\ stats' = [stats EXCEPT !.not_found = @ + 1]
          /\ f_out'.rows = Append(f_out.rows, DictToList(Original(idx), fieldnames))
          /\ UrlLine(FullUrl(Params(RawDevice(Original(idx))))) \in Range(console')]_vars

\* ---- C6 ----------------------------------------------------------------
RowsWritten ==
  IF pc \in {"loop", "throttle", "done"} THEN idx
  ELSE IF InLookup \/ pc = "crashed" THEN idx - 1
  ELSE 0

C6_State ==
  /\ f_out.flushed = f_out.written
  /\ f_out.written = (IF f_out.header = <<>> THEN 0 ELSE 1) + Len(f_out.rows)
  /\ pc \in {"start", "open", "stopped"} => f_out.written = 0
  /\ pc \notin {"start", "open", "stopped"} => f_out.header # <<>> /\ f_out.header = fieldnames
  /\ Len(f_out.rows) = RowsWritten
  /\ reqs # <<>> => Len(f_out.rows) = idx - 1
  /\ pc = "done" => Len(f_out.rows) = Len(file.rows)
  /\ \A i \in 1..Len(f_out.rows) :
       /\ f_out.rows[i] = DictToList(input_rows[i], fieldnames)
       /\ \A j \in 1..Len(fieldnames) :
            fieldnames[j] \notin Range(target_fields)
              => f_out.rows[i][j] = CsvCell(Original(i)[fieldnames[j]])

C6_Step ==
  /\ f_out'.open /\ ~f_out.open => pc = "open"
  /\ f_out.written > 0 =>
       /\ f_out'.header = f_out.header
       /\ Len(f_out'.rows) \in {Len(f_out.rows), Len(f_out.rows) + 1}
       /\ SubSeq(f_out'.rows, 1, Len(f_out.rows)) = f_out.rows
  /\ reqs' # <<>> /\ reqs' # reqs => f_out' = f_out

\* C6: the output is opened once and starts with the header; at every point
\* what is written is flushed and is the header followed by the output rows
\* of input rows 1..k in input order, each once; rows 1..k-1 are on disk
\* when a request for row k is issued; a row that went through the lookup,
\* retried or not, has one output row; a finished run has written every row
C6_Output == []C6_State /\ [][C6_Step]_vars

\* a retried lookup for the second row, the first row on disk
C6_Witness ==
  /\ pc = "returned" /\ idx = 2 /\ Len(f_out.rows) = 1 /\ f_out.flushed = 2
  /\ \E i \in 1..Len(reqs) : reqs[i].call = 2

\* ---- C7 ----------------------------------------------------------------
\* C7: a row that went through the lookup is written and then followed by a
\* sleep of the inter-row interval before the next row starts, so a lookup
\* that follows an earlier lookup row issues its first request at least one
\* interval after the last request; a row passed through is followed by no
\* sleep
C7_Throttle ==
  /\ [](reqs # <<>> /\ stats.found + stats.not_found > 0
          => reqs[1].idle >= DELAY_BETWEEN_REQUESTS)
  /\ [](pc = "throttle" => Len(f_out.rows) = idx)
  /\ [][pc = "returned" /\ pc' \notin {"returned", "crashed"} => pc' = "throttle"]_vars
  /\ [][pc = "throttle" /\ pc' # "throttle" =>
          idle' = idle + DELAY_BETWEEN_REQUESTS /\ pc' = "loop" /\ idx' = idx]_vars
  /\ [][AtRow /\ idx' = idx + 1 /\ pc' # "get1" => idle' = idle]_vars

\* the first request of a lookup that follows an earlier lookup row
C7_Witness ==
  /\ pc = "returned" /\ idx = 2
  /\ stats.found + stats.not_found = 1
  /\ reqs[1].idle = DELAY_BETWEEN_REQUESTS

\* ---- C8 ----------------------------------------------------------------
\* C8: every request of a lookup, the retry included, is the same query:
\* the same path, the same parameters and the X-Requested-With header
C8_SameQuery ==
  \A i \in 1..Len(reqs) :
    /\ reqs[i].url = api_url
    /\ reqs[i].params =
         [mi_number |-> Strip(RawDevice(Original(idx))), sort |-> "verification_date desc",
          start |-> 0, rows |-> 1,
          verification_date_start |-> DateFloor, verification_date_end |-> Today]
    /\ "X-Requested-With" \in reqs[i].headers

\* ---- C9 ----------------------------------------------------------------
\* the row's arshin value as read, or empty
ArshinOrEmpty(row) ==
  IF IsStr(Get(row, "arshin", <<>>)) THEN Get(row, "arshin", <<>>) ELSE <<>>

ExpectedVriId(row, rec) ==
  LET id  == Get(rec, "vri_id", <<>>)
      doc == Get(rec, "result_docnum", <<>>)
  IN  IF Truthy(id) THEN id
      ELSE IF IsStr(doc) /\ Len(Split(doc, "/")) >= 3
           THEN ArshinOrEmpty(row) \o <<"-">> \o Split(doc, "/")[3]
           ELSE <<>>

\* C9: the vri_id written for a found row is the record's identifier if that
\* is non-empty; else, if the document number has at least three segments,
\* the row's arshin value (or empty), a hyphen and the third segment; else
\* empty
C9_Fallback ==
  [][pc = "returned" /\ pc' = "throttle" /\ TruthyItem(vri) /\ vri.kind = "dict" =>
       \A j \in 1..Len(fieldnames) :
         fieldnames[j] = "vri_id" =>
           f_out'.rows[idx][j] = ExpectedVriId(Original(idx), vri.d)]_vars

\* ---- C10 ---------------------------------------------------------------
Lacking(f) == f \notin Range(file.header)
Count(x, s) == Cardinality({i \in 1..Len(s) : s[i] = x})

C10_Order ==
  /\ pc \notin {"start", "stopped"} =>
       fieldnames = file.header \o SelectSeq(target_fields, Lacking)
  /\ f_out.written > 0 =>
       /\ f_out.header = fieldnames
       /\ \A i \in 1..Len(f_out.rows) :
            /\ Len(f_out.rows[i]) = Len(f_out.header)
            /\ \A j \in 1..Len(fieldnames) :
                 f_out.rows[i][j] = CsvCell(Get(input_rows[i], fieldnames[j], <<>>))

\* C10 as stated: the output header is the input header followed by the
\* enrichment fields the input lacks, in the listed sequence; no enrichment
\* field appears twice; the order is computed once and used for the header
\* and every row
C10_Original ==
  /\ []C10_Order
  /\ [](pc \notin {"start", "stopped"} =>
          \A f \in Range(target_fields) : Count(f, fieldnames) = 1)
  /\ [][pc # "start" => fieldnames' = fieldnames]_vars

\* C10 amended: no enrichment field is appended twice, so each occurs in the
\* output header once if the input lacks it and as often as the input
\* header repeats it otherwise
C10_Header ==
  /\ []C10_Order
  /\ [](pc \notin {"start", "stopped"} =>
          \A f \in Range(target_fields) :
            Count(f, fieldnames) = IF Lacking(f) THEN 1 ELSE Count(f, file.header))
  /\ [][pc # "start" => fieldnames' = fieldnames]_vars

\* a finished run over a header that already had an enrichment column
C10_Witness ==
  /\ pc = "done" /\ Len(f_out.rows) = 2
  /\ "vri_id" \in Range(file.header) /\ "sticker_num" \notin Range(file.header)

====
